---- MODULE Spec2Model ----
(***************************************************************************)
(* The gaphor code generator (gaphor/codegen/coder.py) as a state machine. *)
(*                                                                         *)
(* The state is the loaded repository (the model's classes, their          *)
(* generalizations, owned attributes and operations, the super models and  *)
(* the override table) together with the position of main/coder: the       *)
(* ordered class list, the loop index of the running pass, the lines       *)
(* yielded so far, the set already_imported and the log.                   *)
(*                                                                         *)
(* Classes of the model are numbered 1..NumClasses in the order            *)
(* model.select(UML.Class) yields them; 0 stands for "no class" (a         *)
(* property without a resolved type).  The string None stands for          *)
(* Python's None where the code keeps a string or None (name, typeValue).  *)
(***************************************************************************)
EXTENDS Naturals, Integers, Sequences, FiniteSets, TLC

\* Number of classes of the generated model.
NumClasses == 3

Classes == 1..NumClasses

None == "<None>"

-----------------------------------------------------------------------------
(* Strings.                                                                *)

\* str.endswith
EndsWith(s, suf) ==
    /\ Len(s) >= Len(suf)
    /\ SubSeq(s, Len(s) - Len(suf) + 1, Len(s)) = suf

\* str.startswith
StartsWith(s, pre) ==
    /\ Len(s) >= Len(pre)
    /\ SubSeq(s, 1, Len(pre)) = pre

\* str.strip, for blanks
RECURSIVE Strip(_)
Strip(s) ==
    IF Len(s) = 0 THEN s
    ELSE IF SubSeq(s, 1, 1) = " " THEN Strip(SubSeq(s, 2, Len(s)))
    ELSE IF SubSeq(s, Len(s), Len(s)) = " " THEN Strip(SubSeq(s, 1, Len(s) - 1))
    ELSE s

\* The position of the first "," of s at or after i, Len(s)+1 if none.
RECURSIVE CommaAt(_, _)
CommaAt(s, i) ==
    IF i > Len(s) THEN i
    ELSE IF SubSeq(s, i, i) = "," THEN i
    ELSE CommaAt(s, i + 1)

\* str.split(","): "" splits to [""], "a,b" to ["a", "b"].
RECURSIVE Split(_)
Split(s) ==
    LET k == CommaAt(s, 1)
    IN  IF k > Len(s) THEN << s >>
        ELSE << SubSeq(s, 1, k - 1) >> \o Split(SubSeq(s, k + 1, Len(s)))

\* str.title: the first letter of each run of letters in upper case, the
\* others in lower case.
LowerCase == "abcdefghijklmnopqrstuvwxyz"

UpperCase == "ABCDEFGHIJKLMNOPQRSTUVWXYZ"

\* The position of character ch in s, 0 if it is not there.
IndexOf(ch, s) ==
    IF \E k \in 1..Len(s) : SubSeq(s, k, k) = ch
    THEN CHOOSE k \in 1..Len(s) : SubSeq(s, k, k) = ch
    ELSE 0

IsLetter(ch) == IndexOf(ch, LowerCase) > 0 \/ IndexOf(ch, UpperCase) > 0

ToUpper(ch) ==
    IF IndexOf(ch, LowerCase) > 0
    THEN SubSeq(UpperCase, IndexOf(ch, LowerCase), IndexOf(ch, LowerCase)) ELSE ch

ToLower(ch) ==
    IF IndexOf(ch, UpperCase) > 0
    THEN SubSeq(LowerCase, IndexOf(ch, UpperCase), IndexOf(ch, UpperCase)) ELSE ch

RECURSIVE TitleFrom(_, _)
TitleFrom(s, k) ==
    IF k > Len(s) THEN ""
    ELSE (IF k > 1 /\ IsLetter(SubSeq(s, k - 1, k - 1))
          THEN ToLower(SubSeq(s, k, k))
          ELSE ToUpper(SubSeq(s, k, k)))
         \o TitleFrom(s, k + 1)

Title(s) == TitleFrom(s, 1)

\* The strings of the model in the order Python compares them (code points:
\* "A" < "_" < "a"), for sorted(..., key=name).
NameOrder ==
    << "", "A", "AKind", "B", "C", "T", "_A", "_B", "_C", "__A", "a", "b",
       "baseClass", "u", "v", "w", "~T", None >>

NameRank(s) == CHOOSE i \in 1..Len(NameOrder) : NameOrder[i] = s

\* sorted(seq, key=...), rank[x] being the rank of x's key: insertion sort,
\* stable as Python's.
RECURSIVE InsertSorted(_, _, _)
InsertSorted(sorted, x, rank) ==
    IF sorted = << >> THEN << x >>
    ELSE IF rank[x] < rank[Head(sorted)]
         THEN << x >> \o sorted
         ELSE << Head(sorted) >> \o InsertSorted(Tail(sorted), x, rank)

RECURSIVE Sorted(_, _)
Sorted(seq, rank) ==
    IF seq = << >> THEN << >>
    ELSE InsertSorted(Sorted(SubSeq(seq, 1, Len(seq) - 1), rank),
                      seq[Len(seq)], rank)

Range(seq) == { seq[i] : i \in 1..Len(seq) }

-----------------------------------------------------------------------------
(* The repository and the position of the generator.                       *)

VARIABLES
    name,               \* c.name of each class of the model
    generalization,     \* [g.general for g in c.generalization]
    ownedAttribute,     \* c.ownedAttribute, a sequence of properties
    ownedOperation,     \* the names of c.ownedOperation
    appliedStereotype,  \* the names of the stereotypes applied to c
    owningPackage,      \* c.owningPackage
    super_models,       \* the (modeling language, factory) pairs
    overrides,          \* the override table: its keys, and whether it has a header
    pc,                 \* where main is: load, coder, first, operations, second, done, error
    classes,            \* coder: the ordered class list
    i,                  \* the index of the class the running loop is at
    out,                \* the lines yielded so far, each with the block that yielded it
    already_imported,   \* coder: the import lines yielded so far
    log,                \* the warnings logged so far
    before,             \* the repository as it was when coder was entered
    stack,              \* order_classes: the calls of order in progress
    seen_classes        \* order_classes: seen_classes

repo == << name, generalization, ownedAttribute, ownedOperation,
           appliedStereotype, owningPackage, super_models, overrides >>

vars == << name, generalization, ownedAttribute, ownedOperation,
           appliedStereotype, owningPackage, super_models, overrides,
           pc, classes, i, out, already_imported, log, before,
           stack, seen_classes >>

orderVars == << stack, seen_classes >>

\* a.defaultValue: unset, a str, or a literal (LiteralString, LiteralInteger,
\* LiteralUnlimitedNatural, LiteralBoolean) with its value as text.
NoDefault == [ literal |-> "none", value |-> "" ]

Default(literal, value) == [ literal |-> literal, value |-> value ]

\* A property (UML.Property) with the fields the generator reads.
Attr(n, ty, tv, der, slots) ==
    [ name |-> n, type |-> ty, typeValue |-> tv, isDerived |-> der,
      slot |-> slots, aggregation |-> "none", association |-> "none",
      ownedEndClass |-> 0, upperValue |-> "*", defaultValue |-> NoDefault ]

\* A slot of an applied stereotype: definingFeature.name and the slot value.
Slot(feature, value) == [ definingFeature |-> feature, value |-> value ]

\* The packages of a repository: a plain package, a profile, and a package
\* nested in the profile.
PkgParent == [ p \in {"model", "profile", "nested"} |->
                 IF p = "nested" THEN "profile" ELSE None ]

\* A class, of the model (sm = 0) or of super model sm.
Ref(sm, id) == [ sm |-> sm, id |-> id ]

RefName(r) ==
    IF r.sm = 0 THEN name[r.id] ELSE super_models[r.sm].classes[r.id].name

RefAttrs(r) ==
    IF r.sm = 0 THEN ownedAttribute[r.id]
    ELSE super_models[r.sm].classes[r.id].ownedAttribute

RefGenerals(r) ==
    IF r.sm = 0 THEN generalization[r.id]
    ELSE super_models[r.sm].classes[r.id].generalization

RefPackage(r) ==
    IF r.sm = 0 THEN owningPackage[r.id]
    ELSE super_models[r.sm].classes[r.id].owningPackage

\* The subsequence of seq of the elements that satisfy the set keep of indices.
RECURSIVE Pick(_, _, _)
Pick(seq, keep, k) ==
    IF k > Len(seq) THEN << >>
    ELSE (IF k \in keep THEN << seq[k] >> ELSE << >>) \o Pick(seq, keep, k + 1)

-----------------------------------------------------------------------------
(* Classifier predicates.                                                  *)

\* is_enumeration(c), given c.name: "c and c.name and (...)".
is_enumeration(nm) ==
    /\ nm # None
    /\ nm # ""
    /\ (EndsWith(nm, "Kind") \/ EndsWith(nm, "Sort"))

\* is_tilde_type(c), given c.name.
is_tilde_type(nm) ==
    /\ nm # None
    /\ nm # ""
    /\ StartsWith(nm, "~")

\* is_simple_type(c) for a class of the model.
RECURSIVE is_simple_type(_)
is_simple_type(c) ==
    \/ "SimpleAttribute" \in appliedStereotype[c]
    \/ \E k \in 1..Len(generalization[c]) : is_simple_type(generalization[c][k])

\* is_in_profile(c): test(c.owningPackage).
RECURSIVE InProfilePackage(_)
InProfilePackage(p) ==
    \/ p = "profile"
    \/ (PkgParent[p] # None /\ InProfilePackage(PkgParent[p]))

is_in_profile(r) == InProfilePackage(RefPackage(r))

\* is_extension_end(a)
is_extension_end(a) == a.association = "Extension"

\* bases(c): the generals, then the classes of the baseClass associations.
bases(r) ==
    LET attrs == RefAttrs(r)
        marked == { k \in 1..Len(attrs) :
                      attrs[k].association # "none" /\ attrs[k].name = "baseClass" }
        ends == Pick(attrs, marked, 1)
    IN  [ k \in 1..Len(RefGenerals(r)) |-> Ref(r.sm, RefGenerals(r)[k]) ]
        \o [ k \in 1..Len(ends) |-> Ref(r.sm, ends[k].ownedEndClass) ]

\* The same for a class of the model, as class numbers.
basesOf(c) == [ k \in 1..Len(bases(Ref(0, c))) |-> bases(Ref(0, c))[k].id ]

-----------------------------------------------------------------------------
(* order_classes.                                                          *)

\* order(c) and its loop over bases(c); st is the pair of the classes
\* yielded so far and seen_classes.
RECURSIVE order(_, _), orderBases(_, _, _)

\* order with the class yielded before its bases.
order_yields_first(c, st) ==
    IF c \in st.seen THEN st
    ELSE orderBases(basesOf(c), 1,
                    [ seq |-> Append(st.seq, c), seen |-> st.seen \cup {c} ])

\* order without the test of seen_classes.
order_unguarded(c, st) ==
    [ seq |-> Append(orderBases(basesOf(c), 1, st).seq, c),
      seen |-> orderBases(basesOf(c), 1, st).seen \cup {c} ]

order(c, st) ==
    IF c \in st.seen THEN st
    ELSE LET s1 == orderBases(basesOf(c), 1, st)
         IN  [ seq |-> Append(s1.seq, c), seen |-> s1.seen \cup {c} ]

orderBases(bs, k, st) ==
    IF k > Len(bs) THEN st
    ELSE orderBases(bs, k + 1, order(bs[k], st))

RECURSIVE orderAll(_, _, _)
orderAll(cs, k, st) ==
    IF k > Len(cs) THEN st
    ELSE orderAll(cs, k + 1, order(cs[k], st))

order_classes(cs) == orderAll(cs, 1, [ seq |-> << >>, seen |-> {} ]).seq

\* The classes coder hands to order_classes, in the order select yields them.
candidates ==
    Pick([ c \in Classes |-> c ],
         { c \in Classes :
             /\ ~ is_enumeration(name[c])
             /\ ~ is_simple_type(c)
             /\ ~ is_in_profile(Ref(0, c))
             /\ ~ is_tilde_type(name[c]) },
         1)

-----------------------------------------------------------------------------
(* Cross-model resolution.                                                 *)

NoElementType == [ module |-> None, name |-> None ]

\* The classes of the super models named nm that are neither in a profile
\* nor an enumeration, as (super model, class) pairs.
SuperMatches(nm) ==
    { p \in UNION { { << k, j >> : j \in 1..Len(super_models[k].classes) } :
                    k \in 1..Len(super_models) } :
        LET cls == super_models[p[1]].classes[p[2]]
        IN  /\ cls.name = nm
            /\ ~ (is_in_profile(Ref(p[1], p[2])) \/ is_enumeration(cls.name)) }

\* in_super_model(name, super_models), ms being the matches: the first one in
\* the order of the loops; failed is the assertion that lookup_element found
\* the type.
FirstMatch(nm, ms) ==
    IF ms = {}
    THEN [ found |-> FALSE, failed |-> FALSE,
           element_type |-> NoElementType, cls |-> Ref(0, 0) ]
    ELSE LET p == CHOOSE p \in ms : \A q \in ms :
                      \/ p[1] < q[1]
                      \/ (p[1] = q[1] /\ p[2] <= q[2])
         IN  IF nm \in super_models[p[1]].elements
             THEN [ found |-> TRUE, failed |-> FALSE,
                    element_type |-> [ module |-> super_models[p[1]].module,
                                       name |-> nm ],
                    cls |-> Ref(p[1], p[2]) ]
             ELSE [ found |-> FALSE, failed |-> TRUE,
                    element_type |-> NoElementType, cls |-> Ref(0, 0) ]

in_super_model(nm) == FirstMatch(nm, SuperMatches(nm))

NoAttribute ==
    [ found |-> FALSE, failed |-> FALSE, element_type |-> NoElementType,
      owner |-> Ref(0, 0), ix |-> 0 ]

\* c.name, names being the names of the classes of the model.
NameIn(names, r) ==
    IF r.sm = 0 THEN names[r.id] ELSE super_models[r.sm].classes[r.id].name

\* attribute(c, name, super_models): the class's own attributes, then its
\* bases, then the class of the same name in a super model. names are the
\* names the classes of the model have when it is called.
RECURSIVE attribute(_, _, _), attributeOfBases(_, _, _, _)

\* The last step, sup being in_super_model(c.name, super_models).
attributeOfSuper(r, nm, names, sup) ==
    IF sup.failed THEN [ NoAttribute EXCEPT !.failed = TRUE ]
    ELSE IF sup.found /\ sup.cls # r
    THEN [ attribute(sup.cls, nm, names) EXCEPT !.element_type = sup.element_type ]
    ELSE NoAttribute

\* The steps after the loop over the bases, which gave b.
attributeAfterBases(r, nm, names, b) ==
    IF b.found \/ b.failed THEN b
    ELSE attributeOfSuper(r, nm, names, in_super_model(NameIn(names, r)))

\* The steps after the loop over the own attributes, of which those in own
\* have the name.
attributeAfterOwn(r, nm, names, own) ==
    IF own # {}
    THEN [ found |-> TRUE, failed |-> FALSE, element_type |-> NoElementType,
           owner |-> r, ix |-> CHOOSE k \in own : \A m \in own : k <= m ]
    ELSE attributeAfterBases(r, nm, names, attributeOfBases(bases(r), 1, nm, names))

attribute(r, nm, names) ==
    attributeAfterOwn(r, nm, names,
        { k \in 1..Len(RefAttrs(r)) : RefAttrs(r)[k].name = nm })

\* The loop over the bases: the first base that has the attribute.
firstFound(d, bs, k, nm, names) ==
    IF d.found \/ d.failed THEN d ELSE attributeOfBases(bs, k + 1, nm, names)

attributeOfBases(bs, k, nm, names) ==
    IF k > Len(bs) THEN NoAttribute
    ELSE firstFound(attribute(bs[k], nm, names), bs, k, nm, names)

\* The property attribute() found.
Found(d) == RefAttrs(d.owner)[d.ix]

-----------------------------------------------------------------------------
(* The lines coder yields.                                                 *)

\* str(x) in an f-string
Str(x) == IF x = None THEN "None" ELSE x

full_name(c, member) == Str(name[c]) \o "." \o Str(member)

has_override(key) == key \in overrides.keys

\* A yielded line with the block of the output that yielded it (1 the
\* header, 2 the first pass, 3 the operations, 4 the second pass) and the class it
\* was yielded for.
Yield(line, block, c) == [ line |-> line, block |-> block, cls |-> c ]

ImportLine(element_type, alias) ==
    [ k |-> "from", module |-> element_type.module, name |-> element_type.name,
      as |-> alias ]

\* class_declaration(class_)
class_declaration(c) ==
    LET bs == basesOf(c)
        rank == [ b \in Range(bs) |-> NameRank(name[b]) ]
        srt == Sorted(bs, rank)
    IN  [ k |-> "class", name |-> name[c],
          bases |-> [ n \in 1..Len(srt) |-> name[srt[n]] ] ]

\* is_reassignment(a): a base, or a base of a base, owns an attribute of a's name.
RECURSIVE OwnsOrInherits(_, _)
OwnsOrInherits(c, nm) ==
    \/ \E k \in 1..Len(ownedAttribute[c]) : ownedAttribute[c][k].name = nm
    \/ \E k \in 1..Len(basesOf(c)) : OwnsOrInherits(basesOf(c)[k], nm)

is_reassignment(c, a) ==
    \E k \in 1..Len(basesOf(c)) : OwnsOrInherits(basesOf(c)[k], a.name)

\* UML.recipes.get_literal_value_as_string: the value of the literal as text.
get_literal_value_as_string(d) == d.value

\* isinstance(a.defaultValue, ...), for the classes listed.
IsLiteral(d, literals) == d.literal \in literals

\* "if a.defaultValue:": a literal is an object, a str is true unless empty.
HasDefault(d) ==
    /\ d.literal # "none"
    /\ (d.literal = "str" => d.value # "")

\* The value for typeValue bool: true and false become True and False.
BoolLiteral(v) == IF v = "true" THEN "True" ELSE IF v = "false" THEN "False" ELSE v

\* default_value(a): the default written after "default=" (None if none is
\* written), and whether it raised.
default_value(a) ==
    LET d == a.defaultValue
        anyLiteral == { "LiteralString", "LiteralInteger",
                        "LiteralUnlimitedNatural", "LiteralBoolean" }
    IN  IF ~ HasDefault(d) THEN [ text |-> None, raised |-> FALSE ]
        ELSE IF a.typeValue = "int"
        THEN [ text |-> IF IsLiteral(d, anyLiteral)
                        THEN get_literal_value_as_string(d) ELSE Title(d.value),
               raised |-> FALSE ]
        ELSE IF a.typeValue = "str"
        THEN [ text |-> IF IsLiteral(d, anyLiteral)
                        THEN get_literal_value_as_string(d)
                        ELSE "\"" \o d.value \o "\"",
               raised |-> FALSE ]
        ELSE IF a.typeValue = "bool"
        THEN [ text |-> BoolLiteral(IF IsLiteral(d, {"LiteralBoolean", "LiteralString"})
                                    THEN get_literal_value_as_string(d) ELSE d.value),
               raised |-> FALSE ]
        ELSE [ text |-> None, raised |-> TRUE ]

\* The _attribute line of a, dv being default_value(a), unless that raised.
attributeLine(acc, a, owner, dv) ==
    IF dv.raised THEN [ acc EXCEPT !.raised = TRUE ]
    ELSE [ acc EXCEPT !.lines = Append(@,
             [ k |-> "_attribute", name |-> a.name, owner |-> owner,
               typeValue |-> a.typeValue, default |-> dv.text ]) ]

\* sorted(..., key=lambda a: a.name or "")
SortKey(nm) == IF nm = None THEN "" ELSE nm

\* variables(class_, overrides): the declaration lines, the warnings logged
\* and whether it raised; acc is what the attributes before k gave.
RECURSIVE variablesFrom(_, _, _, _)
variablesFrom(c, attrs, k, acc) ==
    IF k > Len(attrs) \/ acc.raised THEN acc
    ELSE LET a == attrs[k]
             fn == full_name(c, a.name)
             line(kind) == [ k |-> kind, name |-> a.name, owner |-> name[c] ]
             next ==
               IF is_extension_end(a) THEN acc
               ELSE IF has_override(fn)
               THEN [ acc EXCEPT !.lines = Append(@, line("member_override")) ]
               ELSE IF a.isDerived /\ a.type = 0
               THEN [ acc EXCEPT !.warnings = @ \cup
                        { [ w |-> "no implementation", subject |-> fn, value |-> "" ] } ]
               ELSE IF a.typeValue # None /\ a.typeValue # ""
               THEN attributeLine(acc, a, name[c], default_value(a))
               ELSE IF a.type # 0 /\ is_enumeration(name[a.type])
               THEN [ acc EXCEPT !.lines = Append(@, line("_enumeration")) ]
               ELSE IF a.type # 0
               THEN [ acc EXCEPT !.lines = Append(@,
                        line(IF a.upperValue = "1" THEN "relation_one"
                                                   ELSE "relation_many")) ]
               ELSE [ acc EXCEPT !.raised = TRUE ]
         IN  variablesFrom(c, attrs, k + 1, next)

RECURSIVE operationLines(_, _, _, _)
operationLines(c, ops, k, kind) ==
    IF k > Len(ops) THEN << >>
    ELSE (IF has_override(full_name(c, ops[k]))
          THEN << [ k |-> kind, name |-> ops[k], owner |-> name[c] ] >>
          ELSE << >>)
         \o operationLines(c, ops, k + 1, kind)

variablesAndOperations(c, v, ops) ==
    IF v.raised THEN v
    ELSE [ v EXCEPT
             !.lines = @ \o operationLines(c,
                              Sorted(ops, [ o \in Range(ops) |-> NameRank(SortKey(o)) ]),
                              1, "member_override"),
             !.warnings = @ \cup
                { [ w |-> "no implementation", subject |-> full_name(c, o),
                    value |-> "" ] :
                  o \in { o \in Range(ops) : ~ has_override(full_name(c, o)) } } ]

variables(c) ==
    variablesAndOperations(c,
        variablesFrom(c,
            Sorted(ownedAttribute[c],
                   [ a \in Range(ownedAttribute[c]) |-> NameRank(SortKey(a.name)) ]),
            1, [ lines |-> << >>, warnings |-> {}, raised |-> FALSE ]),
        ownedOperation[c])

\* operations(c, overrides)
operations(c) ==
    LET ops == ownedOperation[c]
    IN  operationLines(c, Sorted(ops, [ o \in Range(ops) |-> NameRank(SortKey(o)) ]),
                       1, "operation")

-----------------------------------------------------------------------------
(* The second pass: associations and subsets.                              *)

\* redefines(a): the value of the first slot that defines "redefines".
redefines(a) ==
    LET rs == { k \in 1..Len(a.slot) : a.slot[k].definingFeature = "redefines" }
    IN  IF rs = {} THEN None
        ELSE a.slot[CHOOSE k \in rs : \A m \in rs : k <= m].value

\* "not a.type or is_simple_type(a.type) or is_enumeration(a.type) or
\* is_extension_end(a)": the attributes the second pass skips.
NoAssociationEnd(a) ==
    \/ a.type = 0
    \/ is_simple_type(a.type)
    \/ is_enumeration(name[a.type])
    \/ is_extension_end(a)

composite(a) == a.aggregation = "composite"

\* The redefinitions yielded where the loop met them.
redefinitions_first(acc) == acc.redefinitions \o acc.lines

\* "yield from redefinitions", after the loop.
yieldRedefinitions(acc) == acc.lines \o acc.redefinitions

\* associations(c, overrides): the lines yielded, and whether it raised
\* (the lines before the raise are yielded all the same).
RECURSIVE associationsFrom(_, _, _)
associationsFrom(c, k, acc) ==
    IF acc.raised THEN acc
    ELSE IF k > Len(ownedAttribute[c])
    THEN [ acc EXCEPT !.lines = yieldRedefinitions(acc) ]
    ELSE LET a == ownedAttribute[c][k]
             fn == full_name(c, a.name)
             line(kind) == Yield([ k |-> kind, name |-> fn, ix |-> k,
                                   type |-> IF a.type = 0 THEN None ELSE name[a.type],
                                   composite |-> kind = "association" /\ composite(a),
                                   redefines |-> IF kind = "redefine" THEN redefines(a)
                                                 ELSE None ],
                                 4, c)
             next ==
               IF has_override(fn)
               THEN [ acc EXCEPT !.lines = Append(@, line("override")) ]
               ELSE IF NoAssociationEnd(a) THEN acc
               ELSE IF redefines(a) # None /\ redefines(a) # ""
               THEN [ acc EXCEPT !.redefinitions = Append(@, line("redefine")) ]
               ELSE IF a.isDerived
               THEN [ acc EXCEPT !.lines = Append(@, line("derivedunion")) ]
               ELSE IF a.name = None \/ a.name = ""
               THEN [ acc EXCEPT !.raised = TRUE ]
               ELSE [ acc EXCEPT !.lines = Append(@, line("association")) ]
         IN  associationsFrom(c, k + 1, next)

associations(c) ==
    associationsFrom(c, 1, [ lines |-> << >>, redefinitions |-> << >>,
                             raised |-> FALSE ])

\* The values subsets(c, ...) resolves, in the order of its three loops: for
\* each attribute that is an association end, for each slot that defines
\* "subsets", for each name of the slot value split at the commas.
RECURSIVE subsetValues(_, _, _)
subsetValues(a, k, n) ==
    IF n > Len(a.slot) THEN << >>
    ELSE (IF a.slot[n].definingFeature # "subsets" THEN << >>
          ELSE LET raw == a.slot[n].value
                   parts == Split(IF raw = None THEN "" ELSE raw)
               IN  [ m \in 1..Len(parts) |-> [ attr |-> k, value |-> Strip(parts[m]) ] ])
         \o subsetValues(a, k, n + 1)

RECURSIVE subsetRequests(_, _)
subsetRequests(c, k) ==
    IF k > Len(ownedAttribute[c]) THEN << >>
    ELSE (IF NoAssociationEnd(ownedAttribute[c][k]) THEN << >>
          ELSE subsetValues(ownedAttribute[c][k], k, 1))
         \o subsetRequests(c, k + 1)

\* The condition under which subsets registers the attribute with the
\* feature d that attribute() found: "if d:  # and d.isDerived:".
Registers(d) == d.found

\* What subsets does with one value that attribute() resolved to d: the lines
\* it yields and the warning it logs. A registration line carries, beside its
\* text, the property registered (attr) and the feature it is registered
\* with (target).
subsetResolved(c, rq, fn, d) ==
    IF d.failed THEN [ lines |-> << >>, warnings |-> {}, failed |-> TRUE ]
    ELSE IF Registers(d)
    THEN [ lines |->
             (IF d.element_type.module # None
              THEN << [ k |-> "from", module |-> d.element_type.module,
                        name |-> RefName(d.owner), as |-> None ] >>
              ELSE << >>)
             \o << [ k |-> "add", owner |-> RefName(d.owner),
                     feature |-> Found(d).name, arg |-> fn,
                     attr |-> [ cls |-> c, ix |-> rq.attr ],
                     target |-> [ owner |-> d.owner, ix |-> d.ix ] ] >>,
           warnings |-> {}, failed |-> FALSE ]
    ELSE IF ~ d.found
    THEN [ lines |-> << >>, failed |-> FALSE,
           warnings |-> { [ w |-> "not defined", subject |-> fn,
                            value |-> rq.value ] } ]
    ELSE [ lines |-> << >>, failed |-> FALSE,
           warnings |-> { [ w |-> "not a derived union", subject |-> fn,
                            value |-> rq.value ] } ]

subsetStep(c, rq) ==
    subsetResolved(c, rq, full_name(c, ownedAttribute[c][rq.attr].name),
                   attribute(Ref(0, c), rq.value, name))

\* One more value: acc and what the step st gave.
subsetAccumulate(acc, st) ==
    [ lines |-> acc.lines \o st.lines,
      warnings |-> acc.warnings \cup st.warnings,
      failed |-> st.failed ]

\* subsets(c, super_models): the lines and warnings of all the values, up to
\* the first that fails.
RECURSIVE subsetsFrom(_, _, _, _)
subsetsFrom(c, rqs, k, acc) ==
    IF k > Len(rqs) \/ acc.failed THEN acc
    ELSE subsetsFrom(c, rqs, k + 1, subsetAccumulate(acc, subsetStep(c, rqs[k])))

subsets(c) ==
    subsetsFrom(c, subsetRequests(c, 1), 1,
                [ lines |-> << >>, warnings |-> {}, failed |-> FALSE ])

\* coder's loop over the lines of subsets(c): an import line is yielded
\* unless it is in already_imported; st is the pair of the lines yielded
\* and already_imported.
RECURSIVE yieldSubsets(_, _, _, _)
yieldSubsets(c, lines, k, st) ==
    IF k > Len(lines) THEN st
    ELSE yieldSubsets(c, lines, k + 1,
           IF lines[k].k = "from"
           THEN [ st EXCEPT
                    !.out = IF lines[k] \in st.imported THEN @
                            ELSE Append(@, Yield(lines[k], 4, c)),
                    !.imported = @ \cup { lines[k] } ]
           ELSE [ st EXCEPT !.out = Append(@, Yield(lines[k], 4, c)) ])

-----------------------------------------------------------------------------
(* resolve_attribute_type_values.                                          *)

\* The classes named nm, for next(select(lambda e: ... e.name == prop.typeValue), None).
ClassesNamed(nm) == { c \in Classes : name[c] = nm }

\* The first branch chain of the loop body: canonicalize typeValue, or resolve it
\* to the first class of that name.
Canonical(prop) ==
    IF prop.typeValue \in {"String", "str", "object"}
    THEN [ prop EXCEPT !.typeValue = "str" ]
    ELSE IF prop.typeValue \in {"Boolean", "bool"}
    THEN [ prop EXCEPT !.typeValue = "bool" ]
    ELSE IF prop.typeValue \in {"Integer", "int"}
    THEN [ prop EXCEPT !.typeValue = "int" ]
    ELSE IF prop.typeValue = "UnlimitedNatural"
    THEN prop
    ELSE IF ClassesNamed(prop.typeValue) # {}
    THEN [ prop EXCEPT
             !.type = CHOOSE c \in ClassesNamed(prop.typeValue) :
                          \A d \in ClassesNamed(prop.typeValue) : c <= d,
             !.typeValue = None,
             !.aggregation = "composite" ]
    ELSE prop

\* The second statement: a property of a simple type becomes a str attribute.
Flattened(prop) ==
    IF prop.type # 0 /\ is_simple_type(prop.type)
    THEN [ prop EXCEPT !.typeValue = "str", !.type = 0 ]
    ELSE prop

\* The loop body up to the raise.
Resolved(prop) == Flattened(Canonical(prop))

\* Unresolvable without "not prop.type and".
Unresolvable_untyped_or_not(prop) ==
    prop.typeValue \notin {"str", "int", "bool", "UnlimitedNatural", None}

\* The condition of the raise, on the property as the loop body left it.
Unresolvable(prop) ==
    /\ prop.type = 0
    /\ prop.typeValue \notin {"str", "int", "bool", "UnlimitedNatural", None}

\* The properties of the repository, in the order select yields them.
Properties ==
    UNION { { << c, k >> : k \in 1..Len(ownedAttribute[c]) } : c \in Classes }

Precedes(p, q) == p[1] < q[1] \/ (p[1] = q[1] /\ p[2] <= q[2])

\* The properties at which the loop raises.
Raising == { p \in Properties : Unresolvable(Resolved(ownedAttribute[p[1]][p[2]])) }

\* The properties the loop got to: all of them, or those up to the first that raises.
Visited ==
    IF Raising = {} THEN Properties
    ELSE LET first == CHOOSE p \in Raising : \A q \in Raising : Precedes(p, q)
         IN  { p \in Properties : Precedes(p, first) }

\* ownedAttribute as resolve_attribute_type_values leaves it.
resolve_attribute_type_values ==
    [ c \in Classes |->
        [ k \in 1..Len(ownedAttribute[c]) |->
            IF << c, k >> \in Visited THEN Resolved(ownedAttribute[c][k])
            ELSE ownedAttribute[c][k] ] ]

-----------------------------------------------------------------------------
(* main: load_model, then the lines of coder.                              *)

Repository ==
    [ name |-> name, generalization |-> generalization,
      ownedAttribute |-> ownedAttribute, ownedOperation |-> ownedOperation,
      appliedStereotype |-> appliedStereotype, owningPackage |-> owningPackage,
      super_models |-> super_models ]

\* load_model returns: the repository is normalized and coder is entered.
Load ==
    /\ pc = "load"
    /\ Raising = {}
    /\ ownedAttribute' = resolve_attribute_type_values
    /\ before' = [ Repository EXCEPT !.ownedAttribute = resolve_attribute_type_values ]
    /\ pc' = "coder"
    /\ UNCHANGED << name, generalization, ownedOperation, appliedStereotype,
                    owningPackage, super_models, overrides, classes, i, out,
                    already_imported, log >>
    /\ UNCHANGED orderVars

\* resolve_attribute_type_values raises ValueError.
LoadRaises ==
    /\ pc = "load"
    /\ Raising # {}
    /\ ownedAttribute' = resolve_attribute_type_values
    /\ before' = [ Repository EXCEPT !.ownedAttribute = resolve_attribute_type_values ]
    /\ pc' = "error"
    /\ UNCHANGED << name, generalization, ownedOperation, appliedStereotype,
                    owningPackage, super_models, overrides, classes, i, out,
                    already_imported, log >>
    /\ UNCHANGED orderVars

\* coder up to its first yields: the class list, the header, the override header.
Header ==
    /\ pc = "coder"
    /\ classes' = order_classes(candidates)
    /\ out' = << Yield([ k |-> "header" ], 1, 0) >>
              \o (IF overrides.header
                  THEN << Yield([ k |-> "override_header" ], 1, 0) >> ELSE << >>)
    /\ already_imported' = {}
    /\ i' = 1
    /\ pc' = "first"
    /\ UNCHANGED << repo, log, before >>
    /\ UNCHANGED orderVars

\* The class the running loop is at.
Current == classes[i]

\* SharesName that looks at the classes before c only (rename the later class).
SharesName_earlier(c) ==
    Cardinality({ t \in 1..Len(classes) : t < i /\ name[classes[t]] = name[c] }) > 0

\* "len([t for t in classes if t.name == c.name]) > 1"
SharesName(c) ==
    Cardinality({ t \in 1..Len(classes) : name[classes[t]] = name[c] }) > 1

\* FirstBranch with "if any(bases(c))" for "if not any(bases(c))".
FirstBranch_inverted(c) ==
    IF has_override(name[c]) THEN "override"
    ELSE IF basesOf(c) = << >> THEN "class"
    ELSE IF in_super_model(name[c]).failed THEN "assert"
    ELSE IF in_super_model(name[c]).found THEN "import"
    ELSE "class"

\* The branch the body of the first loop takes for class c.
FirstBranch(c) ==
    IF has_override(name[c]) THEN "override"
    ELSE IF basesOf(c) # << >> THEN "class"
    ELSE IF in_super_model(name[c]).failed THEN "assert"
    ELSE IF in_super_model(name[c]).found THEN "import"
    ELSE "class"

\* First loop: the class has an override.
EmitOverride ==
    /\ pc = "first"
    /\ i <= Len(classes)
    /\ FirstBranch(Current) = "override"
    /\ out' = Append(out, Yield([ k |-> "override", name |-> name[Current] ], 2, Current))
    /\ i' = i + 1
    /\ UNCHANGED << repo, pc, classes, already_imported, log, before >>
    /\ UNCHANGED orderVars

\* First loop: the class is found in a super model and imported.
EmitImport ==
    /\ pc = "first"
    /\ i <= Len(classes)
    /\ FirstBranch(Current) = "import"
    /\ LET c == Current
           element_type == in_super_model(name[c]).element_type
           line == ImportLine(element_type,
                              IF SharesName(c) THEN "_" \o name[c] ELSE None)
       IN  /\ name' = IF SharesName(c) THEN [ name EXCEPT ![c] = "_" \o name[c] ]
                      ELSE name
           /\ out' = Append(out, Yield(line, 2, c))
           /\ already_imported' = already_imported \cup { line }
    /\ i' = i + 1
    /\ UNCHANGED << generalization, ownedAttribute, ownedOperation,
                    appliedStereotype, owningPackage, super_models, overrides,
                    pc, classes, log, before >>
    /\ UNCHANGED orderVars

\* First loop: in_super_model's assertion fails.
LookupFails ==
    /\ pc = "first"
    /\ i <= Len(classes)
    /\ FirstBranch(Current) = "assert"
    /\ pc' = "error"
    /\ UNCHANGED << repo, classes, i, out, already_imported, log, before >>
    /\ UNCHANGED orderVars

\* declaration with the associations of the class yielded after its declaration.
declaration_single_pass(c, v) ==
    << Yield(class_declaration(c), 2, c) >>
    \o (IF v.raised THEN << >>
        ELSE IF v.lines # << >>
        THEN [ n \in 1..Len(v.lines) |-> Yield(v.lines[n], 2, c) ]
        ELSE << Yield([ k |-> "pass", name |-> None, owner |-> name[c] ], 2, c) >>)
    \o (IF v.raised THEN << >> ELSE associations(c).lines)
    \o (IF v.raised THEN << >>
        ELSE << Yield([ k |-> "" ], 2, c), Yield([ k |-> "" ], 2, c) >>)

\* declaration without the "pass" of a class that has no properties.
declaration_without_pass(c, v) ==
    << Yield(class_declaration(c), 2, c) >>
    \o (IF v.raised THEN << >>
        ELSE [ n \in 1..Len(v.lines) |-> Yield(v.lines[n], 2, c) ]
             \o << Yield([ k |-> "" ], 2, c), Yield([ k |-> "" ], 2, c) >>)

\* The lines of a class declared in the first loop, v being variables(c, overrides).
declaration(c, v) ==
    << Yield(class_declaration(c), 2, c) >>
    \o (IF v.raised THEN << >>
        ELSE IF v.lines # << >>
        THEN [ n \in 1..Len(v.lines) |-> Yield(v.lines[n], 2, c) ]
        ELSE << Yield([ k |-> "pass", name |-> None, owner |-> name[c] ], 2, c) >>)
    \o (IF v.raised THEN << >>
        ELSE << Yield([ k |-> "" ], 2, c), Yield([ k |-> "" ], 2, c) >>)

\* The class is declared: v are its variables.
Declare(c, v, raised) ==
    /\ v.raised = raised
    /\ out' = out \o declaration(c, v)
    /\ log' = log \cup v.warnings

\* First loop: the class is declared, with its attributes or "pass".
EmitClass ==
    /\ pc = "first"
    /\ i <= Len(classes)
    /\ FirstBranch(Current) = "class"
    /\ Declare(Current, variables(Current), FALSE)
    /\ i' = i + 1
    /\ UNCHANGED << repo, pc, classes, already_imported, before >>
    /\ UNCHANGED orderVars

\* First loop: the class declaration is yielded and variables raises ValueError.
VariablesRaises ==
    /\ pc = "first"
    /\ i <= Len(classes)
    /\ FirstBranch(Current) = "class"
    /\ Declare(Current, variables(Current), TRUE)
    /\ pc' = "error"
    /\ UNCHANGED << repo, classes, i, already_imported, before >>
    /\ UNCHANGED orderVars

\* The lines of operations(c) for the classes from k on.
RECURSIVE operationsFrom(_)
operationsFrom(k) ==
    IF k > Len(classes) THEN << >>
    ELSE LET ops == operations(classes[k])
         IN  [ n \in 1..Len(ops) |-> Yield(ops[n], 3, classes[k]) ]
             \o operationsFrom(k + 1)

\* The second loop, over the operations, and the empty line after it.
Operations ==
    /\ pc = "first"
    /\ i > Len(classes)
    /\ out' = out \o operationsFrom(1) \o << Yield([ k |-> "" ], 3, 0) >>
    /\ i' = 1
    /\ pc' = "second"
    /\ UNCHANGED << repo, classes, already_imported, log, before >>
    /\ UNCHANGED orderVars

\* The body of the third loop for class c, a being associations(c, overrides)
\* and s subsets(c, super_models): the lines yielded, already_imported and
\* the log after it, and whether it raised.
thirdLoopBody(c, a, s) ==
    IF a.raised
    THEN [ out |-> out \o a.lines, imported |-> already_imported, log |-> log,
           raised |-> TRUE ]
    ELSE [ yieldSubsets(c, s.lines, 1,
                        [ out |-> out \o a.lines, imported |-> already_imported,
                          log |-> log \cup s.warnings, raised |-> s.failed ])
           EXCEPT !.raised = s.failed ]

Third(r, raised) ==
    /\ r.raised = raised
    /\ out' = r.out
    /\ already_imported' = r.imported
    /\ log' = r.log

\* Third loop: the associations of the class and its subset registrations.
SecondPass ==
    /\ pc = "second"
    /\ i <= Len(classes)
    /\ Third(thirdLoopBody(Current, associations(Current), subsets(Current)), FALSE)
    /\ i' = i + 1
    /\ UNCHANGED << repo, pc, classes, before >>
    /\ UNCHANGED orderVars

\* Third loop: associations raises ValueError on an unnamed attribute, or
\* in_super_model's assertion fails under subsets.
SecondRaises ==
    /\ pc = "second"
    /\ i <= Len(classes)
    /\ Third(thirdLoopBody(Current, associations(Current), subsets(Current)), TRUE)
    /\ pc' = "error"
    /\ UNCHANGED << repo, classes, i, before >>
    /\ UNCHANGED orderVars

\* coder is exhausted.
Finish ==
    /\ pc = "second"
    /\ i > Len(classes)
    /\ pc' = "done"
    /\ UNCHANGED << repo, classes, i, out, already_imported, log, before >>
    /\ UNCHANGED orderVars

-----------------------------------------------------------------------------
(* The repositories main is run on.                                        *)

\* A set of class numbers as a sequence, ascending or descending.
RECURSIVE Ascending(_)
Ascending(S) ==
    IF S = {} THEN << >>
    ELSE LET m == CHOOSE x \in S : \A y \in S : x <= y
         IN  << m >> \o Ascending(S \ {m})

RECURSIVE Descending(_)
Descending(S) ==
    IF S = {} THEN << >>
    ELSE LET m == CHOOSE x \in S : \A y \in S : x >= y
         IN  << m >> \o Descending(S \ {m})

\* The classes reachable from the classes S along g in at most n steps.
RECURSIVE Reach(_, _, _)
Reach(g, S, n) ==
    IF n = 0 THEN S
    ELSE Reach(g, S \cup UNION { g[c] : c \in S }, n - 1)

\* The acyclic hierarchies: each class with a set of generals.
Hierarchies ==
    { g \in [ Classes -> SUBSET Classes ] :
        \A c \in Classes : c \notin Reach(g, g[c], NumClasses) }

\* The hierarchies in which a class has no general but, possibly, the class before it.
Chains ==
    { g \in Hierarchies : \A c \in Classes : g[c] \subseteq { c - 1 } }

\* A super model "M" with class A, whose general is E; A owns the derived
\* union u and the plain association end v, E owns the derived union w.
SuperClass(nm, pkg, attrs, generals) ==
    [ name |-> nm, owningPackage |-> pkg, ownedAttribute |-> attrs,
      generalization |-> generals ]

SuperM(elements) ==
    [ module |-> "M", elements |-> elements,
      classes |-> << SuperClass("A", "model",
                                << Attr("u", 2, None, TRUE, << >>),
                                   Attr("v", 2, None, FALSE, << >>) >>, << 2 >>),
                     SuperClass("E", "model",
                                << Attr("w", 2, None, TRUE, << >>) >>, << >>) >> ]

\* A super model "P" whose class A is in a profile.
SuperP ==
    [ module |-> "P", elements |-> {"A"},
      classes |-> << SuperClass("A", "nested", << >>, << >>) >> ]

NoOverrides == [ header |-> FALSE, keys |-> {} ]

Input(nm, gen, attrs, ops, stereo, pkg, sup, ovr) ==
    [ name |-> nm, generalization |-> gen, ownedAttribute |-> attrs,
      ownedOperation |-> ops, appliedStereotype |-> stereo,
      owningPackage |-> pkg, super_models |-> sup, overrides |-> ovr ]

\* The sequence of the generals of each class of hierarchy g.
Generals(g, up) ==
    [ c \in Classes |-> IF up THEN Ascending(g[c]) ELSE Descending(g[c]) ]

Nothing == [ c \in Classes |-> << >> ]

\* Hierarchies of classes named A (a class of super model M, which comes
\* after a super model with a profile class A) or B, some with an override
\* for B and an override header.
StructureInputs ==
    { Input(nm, Generals(g, env.up), Nothing, Nothing,
            [ c \in Classes |-> {} ], [ c \in Classes |-> "model" ],
            << SuperP, SuperM({"A", "E"}) >>, env.ovr) :
        nm \in [ Classes -> {"A", "B"} ], g \in Hierarchies,
        env \in { [ up |-> TRUE, ovr |-> NoOverrides ],
                  [ up |-> FALSE, ovr |-> NoOverrides ],
                  [ up |-> TRUE, ovr |-> [ header |-> TRUE, keys |-> {"B"} ] ] } }

\* The attributes class 1 and class 2 of a feature input own: association
\* ends typed by class 1, named and unnamed, derived or not, with and without
\* a subsets slot, and a str attribute.
FeatureAttributes ==
    { << >>,
      << Attr("u", 1, None, TRUE, << >>) >>,
      << Attr("u", 1, None, FALSE, << >>) >>,
      << Attr("a", 1, None, FALSE, << Slot("subsets", "u, w") >>) >>,
      << Attr("u", 1, None, TRUE, << >>),
         Attr("a", 1, None, FALSE, << Slot("subsets", "u") >>) >>,
      << Attr("b", 0, "str", FALSE, << Slot("subsets", "u") >>) >>,
      << Attr(None, 1, None, FALSE, << >>) >> }

\* Chains of classes named A or B, of which class 1 and class 2 own such
\* attributes and class 1 an operation b, with and without overrides of members.
FeatureInputs ==
    { Input(nm, Generals(g, TRUE),
            [ c \in Classes |-> IF c = 1 THEN a1 ELSE IF c = 2 THEN a2 ELSE << >> ],
            [ c \in Classes |-> IF c = 1 THEN << "b" >> ELSE << >> ],
            [ c \in Classes |-> {} ], [ c \in Classes |-> "model" ],
            << SuperM({"A", "E"}) >>, ovr) :
        nm \in [ Classes -> {"A", "B"} ], g \in Chains,
        a1 \in FeatureAttributes, a2 \in FeatureAttributes,
        ovr \in { NoOverrides, [ header |-> FALSE, keys |-> {"A.b", "B.b", "B.u"} ] } }

\* Chains of classes named A or B under a modeling language that lacks A, class 2
\* with or without an attribute that subsets u.
LookupInputs ==
    { Input(nm, Generals(g, TRUE),
            [ c \in Classes |-> IF c = 2 THEN a2 ELSE << >> ],
            Nothing, [ c \in Classes |-> {} ], [ c \in Classes |-> "model" ],
            << SuperM({"E"}) >>, NoOverrides) :
        nm \in [ Classes -> {"A", "B"} ], g \in Chains,
        a2 \in { << >>, << Attr("a", 1, None, FALSE, << Slot("subsets", "u") >>) >> } }

\* The attributes of the subclass of a link input: association ends typed by
\* class 1 that redefine u, named or not, derived or not, before another
\* association end, an unnamed derived end, and ends that subset the
\* feature of their own name.
LinkAttributes ==
    { << Attr("u", 1, None, FALSE, << Slot("subsets", "u") >>) >>,
      << Attr("b", 1, None, FALSE, << Slot("subsets", "b,u") >>) >>, << Attr("a", 1, None, FALSE, << Slot("redefines", "u") >>),
         Attr("b", 1, None, FALSE, << >>) >>,
      << Attr("a", 1, None, TRUE, << Slot("subsets", "u"), Slot("redefines", "u") >>),
         Attr("b", 1, None, TRUE, << >>) >>,
      << Attr("b", 1, None, FALSE, << >>),
         Attr(None, 1, None, FALSE, << Slot("redefines", "u") >>) >>,
      << Attr("b", 1, None, FALSE, << >>),
         Attr(None, 1, None, TRUE, << >>) >> }

\* Class B owns the association end u; class C, whose general is B, owns
\* such attributes; the other classes are named T.  With and without an
\* override of C.b.
LinkInputs ==
    { Input([ c \in Classes |-> IF c = 1 THEN "B" ELSE IF c = 2 THEN "C" ELSE "T" ],
            [ c \in Classes |-> IF c = 2 THEN << 1 >> ELSE << >> ],
            [ c \in Classes |->
                IF c = 1 THEN << Attr("u", 1, None, der, << >>) >>
                ELSE IF c = 2 THEN a2 ELSE << >> ],
            Nothing, [ c \in Classes |-> {} ], [ c \in Classes |-> "model" ],
            << >>, ovr) :
        a2 \in LinkAttributes, der \in BOOLEAN,
        ovr \in { NoOverrides, [ header |-> FALSE, keys |-> {"C.b"} ] } }

\* The default values of the attribute of a default input: none, strings
\* and literals.
DefaultValues ==
    { NoDefault, Default("str", ""), Default("str", "1"), Default("str", "abc"),
      Default("str", "true"), Default("LiteralInteger", "1"),
      Default("LiteralBoolean", "false"), Default("LiteralString", "abc") }

\* Class B owns the attribute a, of a primitive typeValue and with such a
\* default value; the other classes are named T.
DefaultInputs ==
    { Input([ c \in Classes |-> IF c = 1 THEN "B" ELSE "T" ],
            Nothing,
            [ c \in Classes |->
                IF c = 1
                THEN << [ Attr("a", 0, tv, FALSE, << >>) EXCEPT !.defaultValue = d ] >>
                ELSE << >> ],
            Nothing, [ c \in Classes |-> {} ], [ c \in Classes |-> "model" ],
            << >>, NoOverrides) :
        tv \in {"int", "Integer", "str", "bool", "UnlimitedNatural"},
        d \in DefaultValues }

\* The end of an extension of the class base: an attribute named baseClass
\* whose association is an Extension with the owned end in class base.
ExtensionEnd(base) ==
    [ Attr("baseClass", base, None, FALSE, << >>)
        EXCEPT !.association = "Extension", !.ownedEndClass = base ]

\* Class 1 is an enumeration (AKind), a placeholder (~T), a class in a
\* package nested in a profile, a simple type, or a plain class; class 2 (B)
\* stands alone, has class 1 as its general, or extends it; the other
\* classes are named T.
ExcludedInputs ==
    { Input([ c \in Classes |->
                IF c = 1 THEN (IF v = "enum" THEN "AKind"
                               ELSE IF v = "tilde" THEN "~T" ELSE "A")
                ELSE IF c = 2 THEN "B" ELSE "T" ],
            [ c \in Classes |-> IF c = 2 /\ link = "general" THEN << 1 >> ELSE << >> ],
            [ c \in Classes |->
                IF c = 2 /\ link = "baseClass" THEN << ExtensionEnd(1) >> ELSE << >> ],
            Nothing,
            [ c \in Classes |-> IF c = 1 /\ v = "simple" THEN {"SimpleAttribute"} ELSE {} ],
            [ c \in Classes |-> IF c = 1 /\ v = "profile" THEN "nested" ELSE "model" ],
            << >>, ovr) :
        v \in {"enum", "tilde", "profile", "simple", "plain"},
        link \in {"none", "general", "baseClass"},
        ovr \in { NoOverrides, [ header |-> FALSE, keys |-> {"A", "~T"} ] } }

\* Class B owns the association end a, typed by class 2 (T) or class 3 and
\* without typeValue; class 3 is named C or has no name.
NamelessInputs ==
    { Input([ c \in Classes |-> IF c = 1 THEN "B" ELSE IF c = 3 THEN n3 ELSE "T" ],
            Nothing,
            [ c \in Classes |->
                IF c = 1 THEN << Attr("a", ty, None, FALSE, << >>) >> ELSE << >> ],
            Nothing, [ c \in Classes |-> {} ], [ c \in Classes |-> "model" ],
            << >>, NoOverrides) :
        n3 \in {"C", None}, ty \in {2, 3} }

\* The typeValue strings a loaded property may carry.
TypeValues ==
    { None, "String", "object", "Boolean", "int", "UnlimitedNatural", "T", "C", "Foo" }

\* Class 1 (B) and class 2 (T) own one property each, of any typeValue and
\* of no type or of type T or C; T may be a simple type, and the general of C.
TypeInputs ==
    { Input([ c \in Classes |-> IF c = 1 THEN "B" ELSE IF c = 2 THEN "T" ELSE "C" ],
            [ c \in Classes |-> IF c = 3 /\ sub THEN << 2 >> ELSE << >> ],
            [ c \in Classes |->
                IF c = 1 THEN << Attr("a", ty, tv, der, << >>) >>
                ELSE IF c = 2 THEN << Attr("b", 0, tv2, FALSE, << >>) >>
                ELSE << >> ],
            Nothing, [ c \in Classes |-> IF c = 2 THEN st ELSE {} ],
            [ c \in Classes |-> "model" ], << >>, NoOverrides) :
        tv \in TypeValues, ty \in {0, 2, 3}, der \in BOOLEAN,
        tv2 \in {"str", "Foo", "C"}, sub \in BOOLEAN,
        st \in { {}, {"SimpleAttribute"} } }

Inputs ==
    StructureInputs \cup FeatureInputs \cup LookupInputs \cup TypeInputs
        \cup LinkInputs \cup DefaultInputs \cup ExcludedInputs \cup NamelessInputs

Init ==
    /\ \E inp \in Inputs :
         /\ name = inp.name
         /\ generalization = inp.generalization
         /\ ownedAttribute = inp.ownedAttribute
         /\ ownedOperation = inp.ownedOperation
         /\ appliedStereotype = inp.appliedStereotype
         /\ owningPackage = inp.owningPackage
         /\ super_models = inp.super_models
         /\ overrides = inp.overrides
         /\ before = [ name |-> inp.name, generalization |-> inp.generalization,
                       ownedAttribute |-> inp.ownedAttribute,
                       ownedOperation |-> inp.ownedOperation,
                       appliedStereotype |-> inp.appliedStereotype,
                       owningPackage |-> inp.owningPackage,
                       super_models |-> inp.super_models ]
    /\ pc = "load"
    /\ classes = << >>
    /\ i = 1
    /\ out = << >>
    /\ already_imported = {}
    /\ log = {}
    /\ stack = << >>
    /\ seen_classes = {}

Next ==
    \/ Load
    \/ LoadRaises
    \/ Header
    \/ EmitOverride
    \/ EmitImport
    \/ LookupFails
    \/ EmitClass
    \/ VariablesRaises
    \/ Operations
    \/ SecondPass
    \/ SecondRaises
    \/ Finish

Spec == Init /\ [][Next]_vars

-----------------------------------------------------------------------------
(* order_classes step by step: the generators of order in progress are the *)
(* frames of stack, each with the class c of the call and the index k of   *)
(* the base its loop is at.  The classes yielded are collected in classes, *)
(* as coder does with list(order_classes(...)).                            *)

\* The depth of recursion at which the interpreter raises RecursionError.
RecursionLimit == 4

\* The repositories order_classes is run on: every class with any set of
\* generals, itself and cycles included, in ascending or descending order.
Graphs == [ Classes -> SUBSET Classes ]

OrderInputs ==
    { Input([ c \in Classes |-> "B" ],
            Generals(g, up), Nothing, Nothing,
            [ c \in Classes |-> {} ], [ c \in Classes |-> "model" ],
            << >>, NoOverrides) :
        g \in Graphs, up \in BOOLEAN }

\* The argument of order_classes: the classes of the model.
classes_argument == [ c \in Classes |-> c ]

InitOrder ==
    /\ \E inp \in OrderInputs :
         /\ name = inp.name
         /\ generalization = inp.generalization
         /\ ownedAttribute = inp.ownedAttribute
         /\ ownedOperation = inp.ownedOperation
         /\ appliedStereotype = inp.appliedStereotype
         /\ owningPackage = inp.owningPackage
         /\ super_models = inp.super_models
         /\ overrides = inp.overrides
         /\ before = [ name |-> inp.name, generalization |-> inp.generalization,
                       ownedAttribute |-> inp.ownedAttribute,
                       ownedOperation |-> inp.ownedOperation,
                       appliedStereotype |-> inp.appliedStereotype,
                       owningPackage |-> inp.owningPackage,
                       super_models |-> inp.super_models ]
    /\ pc = "order"
    /\ classes = << >>
    /\ i = 1
    /\ out = << >>
    /\ already_imported = {}
    /\ log = {}
    /\ stack = << >>
    /\ seen_classes = {}

\* order(c) is called with the calls st in progress: "if c not in
\* seen_classes" lets it in, or it returns at once.
Called(c, st) ==
    IF c \in seen_classes THEN st ELSE Append(st, [ c |-> c, k |-> 1 ])

\* The call of order on top of the stack, and the stack with its loop one
\* base further.
Top == stack[Len(stack)]

Advanced == [ stack EXCEPT ![Len(stack)].k = @ + 1 ]

\* "for c in classes: yield from order(c)": the next candidate.
OrderCandidate ==
    /\ pc = "order"
    /\ stack = << >>
    /\ i <= Len(classes_argument)
    /\ stack' = Called(classes_argument[i], stack)
    /\ i' = i + 1
    /\ UNCHANGED << repo, pc, classes, out, already_imported, log, before,
                    seen_classes >>

\* "for b in bases(c): yield from order(b)": the next base of the call on top.
OrderBase ==
    /\ pc = "order"
    /\ stack # << >>
    /\ Top.k <= Len(basesOf(Top.c))
    /\ (basesOf(Top.c)[Top.k] \in seen_classes \/ Len(stack) < RecursionLimit)
    /\ stack' = Called(basesOf(Top.c)[Top.k], Advanced)
    /\ UNCHANGED << repo, pc, classes, i, out, already_imported, log, before,
                    seen_classes >>

\* The same, with the stack of the interpreter exhausted: RecursionError.
OrderRecursionError ==
    /\ pc = "order"
    /\ stack # << >>
    /\ Top.k <= Len(basesOf(Top.c))
    /\ basesOf(Top.c)[Top.k] \notin seen_classes
    /\ Len(stack) >= RecursionLimit
    /\ pc' = "error"
    /\ UNCHANGED << repo, classes, i, out, already_imported, log, before,
                    stack, seen_classes >>

\* "yield c; seen_classes.add(c)": the loop over the bases is over.
OrderYield ==
    /\ pc = "order"
    /\ stack # << >>
    /\ Top.k > Len(basesOf(Top.c))
    /\ classes' = Append(classes, Top.c)
    /\ seen_classes' = seen_classes \cup { Top.c }
    /\ stack' = SubSeq(stack, 1, Len(stack) - 1)
    /\ UNCHANGED << repo, pc, i, out, already_imported, log, before >>

\* order_classes is exhausted.
OrderReturn ==
    /\ pc = "order"
    /\ stack = << >>
    /\ i > Len(classes_argument)
    /\ pc' = "ordered"
    /\ UNCHANGED << repo, classes, i, out, already_imported, log, before,
                    stack, seen_classes >>

NextOrder ==
    \/ OrderCandidate
    \/ OrderBase
    \/ OrderRecursionError
    \/ OrderYield
    \/ OrderReturn

SpecOrder == InitOrder /\ [][NextOrder]_vars

-----------------------------------------------------------------------------
(* The output, as the properties below read it.                            *)

\* The lines the first loop yields first for class c: its override, its
\* import or its class declaration.
HeadLines(c) ==
    { n \in 1..Len(out) :
        /\ out[n].cls = c
        /\ out[n].block = 2
        /\ out[n].line.k \in {"override", "from", "class"} }

\* The first loop is over: the empty line after the operations is out.
FirstPassOver == \E n \in 1..Len(out) : out[n].block >= 3

\* coder got past the body of the first loop for classes[n].
Processed(n) == out # << >> /\ (FirstPassOver \/ n < i)

\* The candidate classes and the classes they inherit from.
Ancestry ==
    Reach([ c \in Classes |-> Range(basesOf(c)) ], Range(candidates), NumClasses)

\* c inherits from b, directly or not, or is b.
InheritsFrom(c, b) ==
    b \in Reach([ d \in Classes |-> Range(basesOf(d)) ], {c}, NumClasses)

-----------------------------------------------------------------------------
(* C1: every base of a class that is declared has its own first-pass       *)
(* output (class declaration, override text or import line) earlier in the *)
(* output than the declaration of the class.                               *)
C1_BasesBeforeSubclass ==
    \A n \in 1..Len(out) :
        out[n].line.k = "class" =>
            \A b \in Range(basesOf(out[n].cls)) :
                \E m \in HeadLines(b) : m < n

\* A finished run in which a class with two bases, selected before them,
\* is declared, one base being imported.
C1_Witness ==
    /\ pc = "done"
    /\ \E n \in 1..Len(out) :
         /\ out[n].line.k = "class"
         /\ Cardinality(Range(basesOf(out[n].cls))) >= 2
         /\ \A b \in Range(basesOf(out[n].cls)) : out[n].cls < b
         /\ \E b \in Range(basesOf(out[n].cls)) :
              \E m \in HeadLines(b) : out[m].line.k = "from"

(* C2: every candidate class and every class one inherits from is once in  *)
(* the class list, whatever the number of paths that lead to it, and has   *)
(* one first-pass output, and no class has two.                            *)
C2_ExactlyOnce ==
    (pc \notin {"load", "coder"} /\ out # << >>) =>
        /\ \A c \in Ancestry :
             Cardinality({ n \in 1..Len(classes) : classes[n] = c }) = 1
        /\ \A c \in Classes : Cardinality(HeadLines(c)) <= 1
        /\ FirstPassOver => \A c \in Ancestry : Cardinality(HeadLines(c)) = 1

\* A finished run over a diamond: class d has the bases b1 and b2, and b1
\* inherits from b2, which is a candidate itself.
C2_Witness ==
    /\ pc = "done"
    /\ \E d \in Classes : \E b1, b2 \in Range(basesOf(d)) :
         /\ b1 # b2
         /\ InheritsFrom(b1, b2)
         /\ b2 \in Range(candidates)
         /\ Cardinality(HeadLines(b2)) = 1

(* C3: the output is in four blocks in this order: the header lines, the   *)
(* lines of the first loop, the operations, the lines of the associations  *)
(* and subset registrations; and no class declaration comes after an      *)
(* association, derivedunion, redefine or registration line.               *)
C3_BlocksInOrder ==
    \A n, m \in 1..Len(out) :
        n < m =>
            /\ out[n].block <= out[m].block
            /\ out[n].line.k \in {"association", "derivedunion", "redefine", "add"}
                 => out[m].line.k # "class"

\* A finished run with lines in all four blocks: a class declaration, an
\* operation, an association and a subset registration.
C3_Witness ==
    /\ pc = "done"
    /\ \E n \in 1..Len(out) : out[n].line.k = "class"
    /\ \E n \in 1..Len(out) : out[n].line.k = "operation"
    /\ \E n \in 1..Len(out) : out[n].line.k = "association"
    /\ \E n \in 1..Len(out) : out[n].line.k = "add"
    /\ Cardinality({ n \in 1..Len(out) : out[n].line.k = "class" }) >= 2

(* C4: a class without override and without bases whose name is that of a  *)
(* class of a super model that is neither in a profile nor an enumeration  *)
(* gets one import line and no class declaration; and every class the      *)
(* first loop got past has exactly one of override text, import line and   *)
(* class declaration.                                                      *)
C4_ImportInsteadOfDeclaration ==
    /\ \A c \in Classes : Cardinality(HeadLines(c)) <= 1
    /\ \A n \in 1..Len(classes) :
         Processed(n) =>
            /\ Cardinality(HeadLines(classes[n])) = 1
            /\ ( /\ ~ has_override(before.name[classes[n]])
                 /\ basesOf(classes[n]) = << >>
                 /\ SuperMatches(before.name[classes[n]]) # {} )
               => /\ \A h \in HeadLines(classes[n]) : out[h].line.k = "from"
                  /\ \A m \in 1..Len(out) :
                       ~ (out[m].line.k = "class" /\ out[m].cls = classes[n])

\* A finished run in which such a class is imported and another class,
\* which inherits from it, is declared.
C4_Witness ==
    /\ pc = "done"
    /\ \E c, d \in Range(classes) :
         /\ ~ has_override(before.name[c])
         /\ basesOf(c) = << >>
         /\ SuperMatches(before.name[c]) # {}
         /\ \E h \in HeadLines(c) : out[h].line.k = "from"
         /\ c \in Range(basesOf(d))
         /\ \E h \in HeadLines(d) : out[h].line.k = "class"

(* C5: when generation is done, the registration lines for a derived union *)
(* U are those of exactly the association ends C.a of the generated         *)
(* classes with a subsets slot that names U (U being the feature of that   *)
(* name on C, on its bases or on the class of C's name in a super model),  *)
(* one line each.                                                          *)
C5_ExactRegistrations ==
    pc = "done" =>
        \A c \in Range(classes) : \A k \in 1..Len(ownedAttribute[c]) :
            \A sm \in 0..Len(super_models) : \A o \in 1..NumClasses : \A x \in 1..2 :
                ( /\ (sm = 0 \/ o <= Len(super_models[sm].classes))
                  /\ x <= Len(RefAttrs(Ref(sm, o)))
                  /\ RefAttrs(Ref(sm, o))[x].isDerived )
                =>
                Cardinality({ n \in 1..Len(out) :
                                /\ out[n].line.k = "add"
                                /\ out[n].line.attr = [ cls |-> c, ix |-> k ]
                                /\ out[n].line.target = [ owner |-> Ref(sm, o), ix |-> x ] })
                = IF /\ ~ NoAssociationEnd(ownedAttribute[c][k])
                     /\ \E rq \in Range(subsetValues(ownedAttribute[c][k], k, 1)) :
                          /\ attribute(Ref(0, c), rq.value, before.name).found
                          /\ attribute(Ref(0, c), rq.value, before.name).owner = Ref(sm, o)
                          /\ attribute(Ref(0, c), rq.value, before.name).ix = x
                  THEN 1 ELSE 0

(* C6: a registration line is yielded only for a feature that is a derived *)
(* union; and when generation is done, every subsets value of an           *)
(* association end that resolves to a feature that is not derived has its  *)
(* warning "not a derived union" in the log.                               *)
C6_OnlyDerivedUnions ==
    /\ \A n \in 1..Len(out) :
         out[n].line.k = "add" =>
            RefAttrs(out[n].line.target.owner)[out[n].line.target.ix].isDerived
    /\ pc = "done" =>
         \A c \in Range(classes) : \A k \in 1..Len(ownedAttribute[c]) :
            ~ NoAssociationEnd(ownedAttribute[c][k]) =>
                \A rq \in Range(subsetValues(ownedAttribute[c][k], k, 1)) :
                    ( /\ attribute(Ref(0, c), rq.value, name).found
                      /\ ~ Found(attribute(Ref(0, c), rq.value, name)).isDerived )
                    => [ w |-> "not a derived union",
                         subject |-> full_name(c, ownedAttribute[c][k].name),
                         value |-> rq.value ] \in log

(* C7: generation only reads: the repository is as it was when coder was   *)
(* entered.                                                                *)
C7_RepositoryUnchanged == Repository = before

(* C8 as claimed: when normalization has returned, every property has a    *)
(* resolved type or one of the typeValues str, int, bool.                  *)
C8_TypeOrPrimitive ==
    pc = "coder" =>
        \A p \in Properties :
            \/ ownedAttribute[p[1]][p[2]].type # 0
            \/ ownedAttribute[p[1]][p[2]].typeValue \in {"str", "int", "bool"}

(* C8 amended: when normalization has returned, every property has a       *)
(* resolved type, one of the typeValues str, int, bool, UnlimitedNatural,  *)
(* or no typeValue; and when it has raised, some property has no resolved  *)
(* type and a typeValue that is none of these.                             *)
C8_TypeOrPrimitiveOrNone ==
    /\ pc \notin {"load", "error"} =>
         \A p \in Properties :
            \/ ownedAttribute[p[1]][p[2]].type # 0
            \/ ownedAttribute[p[1]][p[2]].typeValue
                 \in {"str", "int", "bool", "UnlimitedNatural", None}
    /\ (pc = "error" /\ out = << >>) =>
         \E p \in Properties :
            /\ ownedAttribute[p[1]][p[2]].type = 0
            /\ ownedAttribute[p[1]][p[2]].typeValue
                 \notin {"str", "int", "bool", "UnlimitedNatural", None}

\* Normalization has returned and left a property without type and without
\* typeValue, and another that it resolved to a class.
C8_Witness ==
    /\ pc = "coder"
    /\ \E p \in Properties :
         /\ ownedAttribute[p[1]][p[2]].type = 0
         /\ ownedAttribute[p[1]][p[2]].typeValue = None
    /\ \E p \in Properties :
         /\ ownedAttribute[p[1]][p[2]].type # 0
         /\ ownedAttribute[p[1]][p[2]].aggregation = "composite"

\* c is imported in the first loop; with an alias.
Imported(c) == \E h \in HeadLines(c) : out[h].line.k = "from"

Aliased(c) == \E h \in HeadLines(c) : out[h].line.k = "from" /\ out[h].line.as # None

(* C9 as claimed: of two classes of the class list that have the same name *)
(* and are both imported from a super model, the later is renamed to       *)
(* _<Name> and imported under that alias, the earlier keeps its name.      *)
C9_LaterIsRenamed ==
    \A n, m \in 1..Len(classes) :
        ( /\ n < m
          /\ Processed(m)
          /\ before.name[classes[n]] = before.name[classes[m]]
          /\ Imported(classes[n])
          /\ Imported(classes[m]) )
        => /\ name[classes[n]] = before.name[classes[n]]
           /\ ~ Aliased(classes[n])
           /\ name[classes[m]] = "_" \o before.name[classes[m]]
           /\ Aliased(classes[m])

\* The name classes[m] carries when the first loop is at classes[n].
CarriedAt(m, n) == IF m < n THEN name[classes[m]] ELSE before.name[classes[m]]

(* C9 amended: a class that is imported from a super model is renamed to   *)
(* _<Name>, and imported under that alias, exactly when another class of   *)
(* the class list carries its name at that moment; so of two classes of    *)
(* the same name that are both imported it is the earlier that is renamed, *)
(* and the later keeps the name unless a third class carries it.           *)
C9_RenamedWhileNameShared ==
    /\ \A n \in 1..Len(classes) :
         (Processed(n) /\ Imported(classes[n])) =>
            IF \E m \in 1..Len(classes) :
                   m # n /\ CarriedAt(m, n) = before.name[classes[n]]
            THEN /\ name[classes[n]] = "_" \o before.name[classes[n]]
                 /\ \A h \in HeadLines(classes[n]) : out[h].line.as = name[classes[n]]
            ELSE /\ name[classes[n]] = before.name[classes[n]]
                 /\ ~ Aliased(classes[n])
    /\ \A n, m \in 1..Len(classes) :
         ( /\ n < m
           /\ Processed(m)
           /\ before.name[classes[n]] = before.name[classes[m]]
           /\ Imported(classes[n])
           /\ Imported(classes[m]) )
         => /\ Aliased(classes[n])
            /\ name[classes[n]] = "_" \o before.name[classes[n]]
            /\ (\A t \in 1..Len(classes) :
                   before.name[classes[t]] = before.name[classes[m]] => t \in {n, m})
               => /\ ~ Aliased(classes[m])
                  /\ name[classes[m]] = before.name[classes[m]]

\* A finished run in which two classes of the same name are imported, the
\* earlier under the alias and the later under the name, and a run in which
\* the later is renamed as well.
C9_Witness ==
    /\ pc = "done"
    /\ \E n, m \in 1..Len(classes) :
         /\ n < m
         /\ before.name[classes[n]] = before.name[classes[m]]
         /\ Aliased(classes[n])
         /\ Imported(classes[m])
         /\ ~ Aliased(classes[m])
         /\ name[classes[m]] = before.name[classes[m]]

(* C10: no import line is in the output twice.                             *)
C10_NoDuplicateImport ==
    \A n, m \in 1..Len(out) :
        (n < m /\ out[n].line.k = "from" /\ out[m].line.k = "from")
            => out[n].line # out[m].line

\* The lines of the second pass yielded for attribute k of class c.
LinkLines(c, k) ==
    { n \in 1..Len(out) :
        /\ out[n].block = 4
        /\ out[n].cls = c
        /\ out[n].line.k \in {"association", "derivedunion", "redefine", "override"}
        /\ out[n].line.ix = k }

\* Attribute k of class c is an association end with a redefines slot and
\* without override, and the third loop got past c.
Redefining(c, k) ==
    /\ pc \in {"second", "done"}
    /\ \E n \in 1..Len(classes) : classes[n] = c /\ (pc = "done" \/ n < i)
    /\ ~ has_override(full_name(c, ownedAttribute[c][k].name))
    /\ ~ NoAssociationEnd(ownedAttribute[c][k])
    /\ redefines(ownedAttribute[c][k]) \notin {None, ""}

(* C11 as claimed: an attribute with a redefines slot has two lines, its    *)
(* association line and, later, its redefinition line.                     *)
C11_AssociationThenRedefine ==
    \A c \in Classes : \A k \in 1..Len(ownedAttribute[c]) :
        Redefining(c, k) =>
            \E n, m \in LinkLines(c, k) :
                /\ n < m
                /\ out[n].line.k = "association"
                /\ out[m].line.k = "redefine"

(* C11 amended: an attribute with a redefines slot has one line, its       *)
(* redefinition line, which names the redefined feature and comes after    *)
(* the lines of all attributes of the class that have no such slot; it has *)
(* no association line and no derivedunion line.                           *)
C11_RedefineOnly ==
    \A c \in Classes : \A k \in 1..Len(ownedAttribute[c]) :
        Redefining(c, k) =>
            /\ Cardinality(LinkLines(c, k)) = 1
            /\ \A n \in LinkLines(c, k) :
                 /\ out[n].line.k = "redefine"
                 /\ out[n].line.redefines = redefines(ownedAttribute[c][k])
                 /\ \A m \in 1..Len(out) :
                      ( /\ out[m].block = 4
                        /\ out[m].cls = c
                        /\ out[m].line.k \in {"association", "derivedunion", "override"} )
                      => m < n

\* A finished run in which class C redefines u of its base B with attribute
\* a, which it owns before its association end b: the line of b is out before
\* the redefinition.
C11_Witness ==
    /\ pc = "done"
    /\ \E c \in Classes : \E k, k2 \in 1..Len(ownedAttribute[c]) :
         /\ Redefining(c, k)
         /\ k < k2
         /\ basesOf(c) # << >>
         /\ \E b \in Range(basesOf(c)) : \E x \in 1..Len(ownedAttribute[b]) :
              ownedAttribute[b][x].name = redefines(ownedAttribute[c][k])
         /\ \E n \in LinkLines(c, k2) : \E m \in LinkLines(c, k) :
              out[n].line.k = "association" /\ n < m

\* The text is an integer numeral.
IsInteger(text) ==
    /\ Len(text) > 0
    /\ \A k \in 1..Len(text) : IndexOf(SubSeq(text, k, k), "0123456789") > 0

\* The written default is a literal of the kind of the typeValue.
KindMatches(tv, text) ==
    IF tv = "int" THEN IsInteger(text)
    ELSE IF tv = "bool" THEN text \in {"True", "False"}
    ELSE tv = "str"

(* C12: an attribute line carries a default only if the default is of the  *)
(* kind of the attribute's typeValue: an integer numeral for int, True or  *)
(* False for bool, a string for str (any other default raises instead).    *)
C12_DefaultMatchesKind ==
    \A n \in 1..Len(out) :
        (out[n].line.k = "_attribute" /\ out[n].line.default # None)
            => KindMatches(out[n].line.typeValue, out[n].line.default)

\* Class c is one of those coder does not select: an enumeration, a simple
\* type, a class in a profile or a placeholder.
Excluded(c) ==
    \/ is_enumeration(before.name[c])
    \/ is_simple_type(c)
    \/ is_in_profile(Ref(0, c))
    \/ is_tilde_type(before.name[c])

(* C13: no class that is an enumeration, a simple type, in a profile or a  *)
(* placeholder has a class declaration, an import line or an override text *)
(* in the output, whether it is a base of a selected class or not.         *)
C13_ExcludedNeverEmitted ==
    \A c \in Classes : Excluded(c) => HeadLines(c) = {}

\* The third loop got past class c.
ThirdLoopPast(c) ==
    /\ pc \in {"second", "done"}
    /\ \E n \in 1..Len(classes) : classes[n] = c /\ (pc = "done" \/ n < i)

(* C14: an attribute without name that is an association end and has no    *)
(* override never has an association, derivedunion or redefine line, and   *)
(* the third loop does not get past its class: associations raises.        *)
C14_UnnamedRaises ==
    \A c \in Classes : \A k \in 1..Len(ownedAttribute[c]) :
        ( /\ ownedAttribute[c][k].name \in {None, ""}
          /\ ~ has_override(full_name(c, ownedAttribute[c][k].name))
          /\ ~ NoAssociationEnd(ownedAttribute[c][k]) )
        => /\ LinkLines(c, k) = {}
           /\ ~ ThirdLoopPast(c)

\* The lines coder yields for the members of class c in its declaration,
\* and its "pass" lines.
MemberLines(c) ==
    { n \in 1..Len(out) :
        /\ out[n].block = 2
        /\ out[n].cls = c
        /\ out[n].line.k \in {"member_override", "_attribute", "_enumeration",
                              "relation_one", "relation_many"} }

PassLines(c) ==
    { n \in 1..Len(out) : out[n].block = 2 /\ out[n].cls = c /\ out[n].line.k = "pass" }

\* Attribute a of class c gives no declaration line: it is an extension
\* end, or a derived attribute without type and without override.
Silent(c, a) ==
    \/ is_extension_end(a)
    \/ /\ ~ has_override(full_name(c, a.name))
       /\ a.isDerived
       /\ a.type = 0

\* No attribute and no operation of class c gives a declaration line.
NoMembers(c) ==
    /\ \A k \in 1..Len(ownedAttribute[c]) : Silent(c, ownedAttribute[c][k])
    /\ \A k \in 1..Len(ownedOperation[c]) :
         ~ has_override(full_name(c, ownedOperation[c][k]))

(* C15: a class that is declared and whose attributes and operations give  *)
(* no declaration line has exactly one "pass" line, right after its class  *)
(* line; a declared class with a member line has no "pass" line.           *)
C15_PassIffNoMembers ==
    \A n \in 1..Len(classes) :
        ( /\ Processed(n)
          /\ \E h \in HeadLines(classes[n]) : out[h].line.k = "class" )
        => IF NoMembers(classes[n])
           THEN /\ MemberLines(classes[n]) = {}
                /\ Cardinality(PassLines(classes[n])) = 1
                /\ \A h \in HeadLines(classes[n]) : (h + 1) \in PassLines(classes[n])
           ELSE /\ MemberLines(classes[n]) # {}
                /\ PassLines(classes[n]) = {}

\* A finished run with a declared class whose only attribute is derived and
\* has no type, which has its "pass", and a declared class with an
\* attribute line and no "pass".
C15_Witness ==
    /\ pc = "done"
    /\ \E c, d \in Range(classes) :
         /\ ownedAttribute[c] # << >>
         /\ NoMembers(c)
         /\ \E h \in HeadLines(c) : out[h].line.k = "class" /\ (h + 1) \in PassLines(c)
         /\ \E h \in HeadLines(d) : out[h].line.k = "class"
         /\ MemberLines(d) # {}
         /\ PassLines(d) = {}

\* No class is an ancestor of itself.
Acyclic ==
    \A c \in Classes :
        c \notin Reach([ d \in Classes |-> Range(basesOf(d)) ],
                       Range(basesOf(c)), NumClasses)

\* Over an acyclic hierarchy the steps of order_classes end with the class
\* list that coder's first loop runs over.
OrderAgrees ==
    (Acyclic /\ pc = "ordered") => classes = order_classes(classes_argument)

(* C16: order_classes never enters order for a class whose call is in      *)
(* progress, so the calls in progress are never more than the classes, no  *)
(* RecursionError is raised, and it returns, whatever the generalizations, *)
(* cycles included.                                                        *)
C16_NeverReentered ==
    /\ \A a, b \in 1..Len(stack) : a < b => stack[a].c # stack[b].c
    /\ Len(stack) <= NumClasses
    /\ pc # "error"

(* C17: no registration line registers an attribute with itself: the       *)
(* feature of a line "Owner.f.add(C.a)" is never the attribute C.a.        *)
C17_NoSelfRegistration ==
    \A n \in 1..Len(out) :
        out[n].line.k = "add" =>
            out[n].line.target # [ owner |-> Ref(0, out[n].line.attr.cls),
                                   ix |-> out[n].line.attr.ix ]

(* C18: normalization leaves the type and the aggregation of a property    *)
(* as they are when the property has a type that is not a simple type and  *)
(* has no typeValue, also in a repository with a class without name.       *)
C18_TypedLeftAlone ==
    [][ pc = "load" =>
          \A c \in Classes : \A k \in 1..Len(ownedAttribute[c]) :
              ( /\ ownedAttribute[c][k].type # 0
                /\ ~ is_simple_type(ownedAttribute[c][k].type)
                /\ ownedAttribute[c][k].typeValue = None )
              => /\ ownedAttribute'[c][k].type = ownedAttribute[c][k].type
                 /\ ownedAttribute'[c][k].aggregation = ownedAttribute[c][k].aggregation
      ]_vars

====
